---- MODULE Spec2Model ----
(***************************************************************************)
(* Model of the MQTT trigger of src/src/main.rs: MqttTrigger::new,         *)
(* MqttTrigger::run with its Ctrl+C task and its scoped listener tasks,    *)
(* MqttTrigger::handle_mqtt_event and the two Host::publish                *)
(* implementations.  The broker and the guest module are the environment. *)
(***************************************************************************)
EXTENDS Integers, Sequences, FiniteSets, TLC

\* ---------------------------------------------------------------- bounds
MaxBindings == 2
MaxMsgs == 2
MaxPublish == 1

\* ------------------------------------------------------------ input sets
\* "dummy mqtt data".to_string().as_bytes().to_vec(): the UTF-8 bytes.
DummyPayload == <<100, 117, 109, 109, 121, 32, 109, 113, 116, 116, 32, 100, 97, 116, 97>>

\* The n-th message the broker delivers is a reading of its own:
\* b"21.5C", b"22.5C", b"23.5C", ...
Reading(n) == <<50, 48 + (n % 10), 46, 53, 67>>

QosValues == {1, 3}

\* The k-th component entry of a manifest: components alternate, the first
\* entry has a topic of its own and the later ones share one (fan-out), and
\* the qos runs through valid and invalid u8 values.
TriggerConfig(k) ==
    [component |-> IF k % 2 = 1 THEN "comp-a" ELSE "comp-b",
     topic |-> IF k = 1 THEN "sensors/temp" ELSE "sensors/hum",
     qos |-> (k - 1) * 3 % 256]

Topics == {"sensors/temp", "sensors/hum"}

\* The "trigger" metadata block, with or without its address field.
MetadataBlocks ==
    [type : {"mqtt"}, address : {"mqtt://localhost:1883"}, qos : QosValues]
        \cup [type : {"mqtt"}, qos : {1}]

\* Manifests with 0..MaxBindings component entries.
ComponentLists == { [k \in 1..n |-> TriggerConfig(k)] : n \in 0..MaxBindings }

Manifests == [trigger : MetadataBlocks, components : ComponentLists]

\* (topic, payload) pairs a guest module passes to publish.
PublishRequests ==
    { [topic |-> "sensors/ack", payload |-> <<111, 107>>],
      [topic |-> "alerts/temp", payload |-> <<72, 73, 71, 72>>] }

PrepareOutcomes == {"ok", "prepare_err", "bind_err"}

HandlerResults == {"ok", "app_error", "trap"}

NoTrigger == [constructed |-> FALSE]

\* ----------------------------------------------------------------- state
VARIABLES
    manifest,       \* the application manifest the engine was loaded with
    trigger,        \* the MqttTrigger value, NoTrigger until new returns Ok
    runPc,          \* position of MqttTrigger::run
    ctrlcTask,      \* the task of lines 95-98: "none" | "waiting" | "exited"
    signal,         \* Ctrl+C has been raised
    tasks,          \* the listener tasks spawned in the scope, in spawn order
    delivered,      \* per topic, the payloads the broker has delivered
    publishLog,     \* publish calls made by guest modules, with their results
    brokerReceived, \* publish requests that reached the broker
    proc,           \* "running" | "exited"
    exitCode

vars == <<manifest, trigger, runPc, ctrlcTask, signal, tasks, delivered,
          publishLog, brokerReceived, proc, exitCode>>

\* ---------------------------------------------------------- MqttTrigger::new
\* require_metadata(TRIGGER_METADATA_KEY): deserialises the block into
\* TriggerMetadata; a field without a serde default that is absent is an error.
RequireMetadataDefaulted(block) ==
    [ok |-> TRUE,
     value |-> [type |-> "mqtt",
                address |-> IF "address" \in DOMAIN block THEN block.address ELSE "",
                qos |-> block.qos]]

RequireMetadata(block) ==
    IF {"type", "address", "qos"} \subseteq DOMAIN block
    THEN [ok |-> TRUE, value |-> block]
    ELSE [ok |-> FALSE]

\* |(_, config)| (config.component.clone(), config.qos, config.topic.clone())
ConfigTuple(config) == <<config.component, config.qos, config.topic>>

ComponentConfigs(components) ==
    [k \in 1..Len(components) |-> ConfigTuple(components[k])]

\* A listener task as scope.spawn creates it, for one element of component_configs.
NewTask(cfg) ==
    [component_id |-> cfg[1], mqtt_qos |-> cfg[2], mqtt_topic |-> cfg[3],
     pc |-> "spawned", instance |-> "none", calls |-> <<>>,
     result |-> "none", ret |-> "none"]

Terminated(t) == t.pc \in {"done", "panicked", "killed"}

\* std::process::exit and the return of main end every task of the runtime.
KillNone(ts) == ts

KillAll(ts) ==
    [k \in 1..Len(ts) |->
        IF Terminated(ts[k]) THEN ts[k] ELSE [ts[k] EXCEPT !.pc = "killed"]]

Exit(code) ==
    /\ proc' = "exited"
    /\ exitCode' = code
    /\ tasks' = KillAll(tasks)

New ==
    /\ proc = "running"
    /\ runPc = "init"
    /\ LET md == RequireMetadata(manifest.trigger) IN
        IF md.ok
        THEN /\ trigger' = [constructed |-> TRUE,
                            address |-> md.value.address,
                            qos |-> md.value.qos,
                            component_configs |-> ComponentConfigs(manifest.components)]
             /\ runPc' = "constructed"
             /\ UNCHANGED <<proc, exitCode, tasks>>
        ELSE /\ runPc' = "config_error"
             /\ Exit(1)
             /\ UNCHANGED trigger
    /\ UNCHANGED <<manifest, ctrlcTask, signal, delivered, publishLog, brokerReceived>>

\* ---------------------------------------------------------- MqttTrigger::run
\* println! and tokio::spawn of the Ctrl+C task, then entry into the scope.
RunStart ==
    /\ proc = "running"
    /\ runPc = "constructed"
    /\ runPc' = "spawning"
    /\ ctrlcTask' = "waiting"
    /\ UNCHANGED <<manifest, trigger, signal, tasks, delivered, publishLog,
                   brokerReceived, proc, exitCode>>

\* One iteration of the for loop over &self.component_configs.
SpawnedTwice(ts, cfg) == Append(Append(ts, NewTask(cfg)), NewTask(cfg))

SpawnedTasks(ts, cfg) == Append(ts, NewTask(cfg))

ScopeSpawn ==
    /\ proc = "running"
    /\ runPc = "spawning"
    /\ Len(tasks) < Len(trigger.component_configs)
    /\ tasks' = SpawnedTasks(tasks, trigger.component_configs[Len(tasks) + 1])
    /\ UNCHANGED <<manifest, trigger, runPc, ctrlcTask, signal, delivered,
                   publishLog, brokerReceived, proc, exitCode>>

\* The closure returns; the scope starts waiting for its tasks.
ScopeClose ==
    /\ proc = "running"
    /\ runPc = "spawning"
    /\ Len(tasks) = Len(trigger.component_configs)
    /\ runPc' = "joining"
    /\ UNCHANGED <<manifest, trigger, ctrlcTask, signal, tasks, delivered,
                   publishLog, brokerReceived, proc, exitCode>>

\* The scope returns once every future spawned in it has finished.
NoneJoined(ts) == TRUE

AllJoined(ts) == \A k \in DOMAIN ts : Terminated(ts[k])

\* The scope has joined every task; run returns Ok(()).
RunReturn ==
    /\ proc = "running"
    /\ runPc = "joining"
    /\ AllJoined(tasks)
    /\ runPc' = "returned"
    /\ UNCHANGED <<manifest, trigger, ctrlcTask, signal, tasks, delivered,
                   publishLog, brokerReceived, proc, exitCode>>

\* main returns the Ok(()) of trigger.run().
MainReturn ==
    /\ proc = "running"
    /\ runPc = "returned"
    /\ Exit(0)
    /\ UNCHANGED <<manifest, trigger, runPc, ctrlcTask, signal, delivered,
                   publishLog, brokerReceived>>

\* ------------------------------------------------------------ Ctrl+C
CtrlC ==
    /\ proc = "running"
    /\ ctrlcTask = "waiting"
    /\ ~signal
    /\ signal' = TRUE
    /\ UNCHANGED <<manifest, trigger, runPc, ctrlcTask, tasks, delivered,
                   publishLog, brokerReceived, proc, exitCode>>

CtrlCExitCode == 0

\* tokio::signal::ctrl_c().await.unwrap(); std::process::exit(0);
CtrlCTask ==
    /\ proc = "running"
    /\ ctrlcTask = "waiting"
    /\ signal
    /\ ctrlcTask' = "exited"
    /\ Exit(CtrlCExitCode)
    /\ UNCHANGED <<manifest, trigger, runPc, signal, delivered, publishLog,
                   brokerReceived>>

\* ------------------------------------------- MqttTrigger::handle_mqtt_event
\* The payload handed to call_handle_message.
HandlerPayload(topic, inbox) == DummyPayload

\* .unwrap() on an Err of handle_mqtt_event panics the task that made it.
PanicAbortsAll(ts, k, why) ==
    [j \in 1..Len(ts) |->
        IF j = k THEN [ts[j] EXCEPT !.pc = "panicked", !.ret = "Err", !.result = why]
        ELSE IF Terminated(ts[j]) THEN ts[j] ELSE [ts[j] EXCEPT !.pc = "killed"]]

Panic(ts, k, why) ==
    [ts EXCEPT ![k].pc = "panicked", ![k].ret = "Err", ![k].result = why]

\* The component handed to prepare_instance: the task's own component_id.
FirstComponent(ts, k) == ts[1].component_id

PreparedComponent(ts, k) == ts[k].component_id

\* instance.spin_mqtt_trigger_sdk_inbound_mqtt().call_handle_message(store, ..)
\* on the instance of `component`: one call of the handler, then the await.
StartInvocationTwice(t, component, payload) ==
    [t EXCEPT !.pc = "invoking", !.instance = component,
              !.calls = Append(Append(@, payload), payload)]

StartInvocation(t, component, payload) ==
    [t EXCEPT !.pc = "invoking", !.instance = component,
              !.calls = Append(@, payload)]

\* From the start of the task to the await of call_handle_message:
\* prepare_instance(component_id).await?, SpinMqtt::new(..)?, then the call.
PrepareInstance(k, outcome) ==
    /\ proc = "running"
    /\ k \in DOMAIN tasks
    /\ tasks[k].pc = "spawned"
    /\ tasks' =
        IF outcome = "ok"
        THEN [tasks EXCEPT ![k] = StartInvocation(tasks[k],
                               PreparedComponent(tasks, k),
                               HandlerPayload(tasks[k].mqtt_topic, delivered))]
        ELSE Panic(tasks, k, outcome)
    /\ UNCHANGED <<manifest, trigger, runPc, ctrlcTask, signal, delivered,
                   publishLog, brokerReceived, proc, exitCode>>

\* What the task does once call_handle_message has resolved to `result`:
\* let _result = ...; Ok(()), and the task ends.
AfterHandlerPropagates(t, result) ==
    IF result = "ok"
    THEN [t EXCEPT !.pc = "done", !.result = result, !.ret = "Ok"]
    ELSE [t EXCEPT !.pc = "panicked", !.result = result, !.ret = "Err"]

AfterHandlerLoops(t, result) ==
    [t EXCEPT !.pc = "spawned", !.result = result, !.ret = "none"]

AfterHandler(t, result) ==
    [t EXCEPT !.pc = "done", !.result = result, !.ret = "Ok"]

HandlerReturns(k, result) ==
    /\ proc = "running"
    /\ k \in DOMAIN tasks
    /\ tasks[k].pc = "invoking"
    /\ tasks' = [tasks EXCEPT ![k] = AfterHandler(tasks[k], result)]
    /\ UNCHANGED <<manifest, trigger, runPc, ctrlcTask, signal, delivered,
                   publishLog, brokerReceived, proc, exitCode>>

\* --------------------------------------------------------- Host::publish
\* Both implementations print and return Ok(Ok(())); nothing reaches the broker.
PublishResult(topic, payload) == "Ok"

Forwarded(received, topic, payload) == received

\* publish takes &mut self and writes no field of it.
TriggerQosFromPublish(tr, topic, payload) == [tr EXCEPT !.qos = (@ + 1) % 256]

TriggerAfterPublish(tr, topic, payload) == tr

Publish(req) ==
    /\ proc = "running"
    /\ \E k \in DOMAIN tasks : tasks[k].pc = "invoking"
    /\ Len(publishLog) < MaxPublish
    /\ publishLog' = Append(publishLog,
            [topic |-> req.topic, payload |-> req.payload,
             result |-> PublishResult(req.topic, req.payload)])
    /\ brokerReceived' = Forwarded(brokerReceived, req.topic, req.payload)
    /\ trigger' = TriggerAfterPublish(trigger, req.topic, req.payload)
    /\ UNCHANGED <<manifest, runPc, ctrlcTask, signal, tasks, delivered,
                   proc, exitCode>>

\* impl Host for SpinMqtt
SpinMqttPublish == \E req \in PublishRequests : Publish(req)

\* impl Host for MqttTrigger
MqttTriggerPublish == \E req \in PublishRequests : Publish(req)

\* ------------------------------------------------------------- environment
TotalDelivered == LET RECURSIVE Sum(_)
                      Sum(S) == IF S = {} THEN 0
                                ELSE LET t == CHOOSE x \in S : TRUE
                                     IN Len(delivered[t]) + Sum(S \ {t})
                  IN Sum(Topics)

\* The broker delivers a message on the topic of a live listener.
Deliver(k) ==
    /\ proc = "running"
    /\ k \in DOMAIN tasks
    /\ ~Terminated(tasks[k])
    /\ TotalDelivered < MaxMsgs
    /\ delivered' = [delivered EXCEPT ![tasks[k].mqtt_topic] = Append(@, Reading(TotalDelivered + 1))]
    /\ UNCHANGED <<manifest, trigger, runPc, ctrlcTask, signal, tasks,
                   publishLog, brokerReceived, proc, exitCode>>

\* ----------------------------------------------------------- specification
Init ==
    /\ manifest \in Manifests
    /\ trigger = NoTrigger
    /\ runPc = "init"
    /\ ctrlcTask = "none"
    /\ signal = FALSE
    /\ tasks = <<>>
    /\ delivered = [t \in Topics |-> <<>>]
    /\ publishLog = <<>>
    /\ brokerReceived = <<>>
    /\ proc = "running"
    /\ exitCode = -1

Next ==
    \/ New
    \/ RunStart
    \/ ScopeSpawn
    \/ ScopeClose
    \/ RunReturn
    \/ MainReturn
    \/ CtrlC
    \/ CtrlCTask
    \/ \E k \in 1..(MaxBindings + 1), o \in PrepareOutcomes : PrepareInstance(k, o)
    \/ \E k \in 1..(MaxBindings + 1), r \in HandlerResults : HandlerReturns(k, r)
    \/ SpinMqttPublish
    \/ MqttTriggerPublish
    \/ \E k \in 1..(MaxBindings + 1) : Deliver(k)

Spec == Init /\ [][Next]_vars

\* The scheduler runs the Ctrl+C task once the signal has been raised.
LiveSpec == Spec /\ WF_vars(CtrlCTask)

\* ------------------------------------------------------------------ claims
Range(seq) == { seq[i] : i \in DOMAIN seq }

TaskConfig(t) == <<t.component_id, t.mqtt_qos, t.mqtt_topic>>

\* The invocation of the task failed: the instance could not be prepared or
\* bound, or the handler trapped or returned an application error.
Failed(t) == t.result \in {"prepare_err", "bind_err", "app_error", "trap"}

Configs == IF trigger.constructed THEN trigger.component_configs ELSE <<>>

\* C1: run starts exactly one listener task per element of component_configs:
\* the k-th task is the listener of the k-th binding, there is never a task
\* without a binding, and once the loop is over every binding has its task.
C1_OneListenerPerBinding ==
    /\ Len(tasks) <= Len(Configs)
    /\ \A k \in DOMAIN tasks : TaskConfig(tasks[k]) = Configs[k]
    /\ runPc \in {"joining", "returned"} => Len(tasks) = Len(Configs)

C1_Witness ==
    /\ runPc = "joining"
    /\ Len(tasks) = MaxBindings
    /\ Len(trigger.component_configs) = MaxBindings

\* C2: once a message has been delivered on the topic of a binding, every
\* payload handed to that binding's handler is the payload of a message
\* delivered on the topic.
C2_PayloadIsDelivered ==
    \A k \in DOMAIN tasks :
        delivered[tasks[k].mqtt_topic] # <<>> =>
            \A c \in DOMAIN tasks[k].calls :
                tasks[k].calls[c] \in Range(delivered[tasks[k].mqtt_topic])

\* C3: a listener whose invocation failed does not terminate (it is neither
\* finished nor panicked): it goes back to waiting for its next message.
C3_FailedListenerLives ==
    \A k \in DOMAIN tasks :
        Failed(tasks[k]) => tasks[k].pc \notin {"done", "panicked"}

\* C4: the step in which the invocation of one listener fails changes nothing
\* of any other listener, and a listener that finished made its own handler
\* call whatever happened to the others.
C4_FailureIsolated ==
    /\ [][\A i \in DOMAIN tasks :
            (~Failed(tasks[i]) /\ Failed(tasks'[i])) =>
                \A j \in DOMAIN tasks \ {i} : tasks'[j] = tasks[j]]_vars
    /\ [](\A j \in DOMAIN tasks : tasks[j].pc = "done" => Len(tasks[j].calls) = 1)

C4_Witness ==
    \E i \in DOMAIN tasks : \E j \in DOMAIN tasks \ {i} :
        /\ tasks[i].pc = "panicked"
        /\ tasks[j].pc = "done"
        /\ tasks[j].result = "ok"
        /\ Len(tasks[j].calls) = 1

\* C5: when M1 then M2 have been delivered on the topic of a binding, the
\* invocations of its handler follow the arrival order: the c-th invocation
\* is the one for the c-th message.
C5_FifoPerBinding ==
    \A k \in DOMAIN tasks :
        Len(delivered[tasks[k].mqtt_topic]) >= 2 =>
            \A c \in DOMAIN tasks[k].calls :
                tasks[k].calls[c] = delivered[tasks[k].mqtt_topic][c]

\* C6: a manifest without the address field never yields a trigger: new fails,
\* the process ends with a nonzero code, and no listener task, Ctrl+C task or
\* handler invocation ever exists.
C6_NoAddressNoListeners ==
    "address" \notin DOMAIN manifest.trigger =>
        /\ ~trigger.constructed
        /\ runPc \in {"init", "config_error"}
        /\ tasks = <<>>
        /\ ctrlcTask = "none"
        /\ runPc = "config_error" => (proc = "exited" /\ exitCode # 0)

C6_Witness ==
    /\ "address" \notin DOMAIN manifest.trigger
    /\ Len(manifest.components) = MaxBindings
    /\ runPc = "config_error"
    /\ proc = "exited"

\* C7: every publish call has been forwarded to the broker: the broker has
\* received exactly the (topic, payload) pairs of the calls, in order.
C7_PublishForwarded ==
    /\ Len(brokerReceived) = Len(publishLog)
    /\ \A i \in DOMAIN publishLog :
        brokerReceived[i] =
            [topic |-> publishLog[i].topic, payload |-> publishLog[i].payload]

\* C8: a publish call returned Ok only if the broker accepted that request.
C8_OkOnlyIfAccepted ==
    \A i \in DOMAIN publishLog :
        publishLog[i].result = "Ok" =>
            [topic |-> publishLog[i].topic, payload |-> publishLog[i].payload]
                \in Range(brokerReceived)

\* C9: with at least one binding and no cancellation signal, run has not
\* returned and no listener has terminated.
C9_BlocksUntilCancelled ==
    (trigger.constructed /\ Len(Configs) >= 1 /\ ~signal) =>
        /\ runPc # "returned"
        /\ \A k \in DOMAIN tasks : ~Terminated(tasks[k])

\* C10: once Ctrl+C has been raised the process ends with exit code 0 and
\* every listener is terminated, whatever the listeners were doing; the
\* Ctrl+C task itself only ever ends by ending the process with code 0.
C10_CtrlCExitsZero ==
    /\ signal ~> (proc = "exited" /\ exitCode = 0
                    /\ \A k \in DOMAIN tasks : Terminated(tasks[k]))
    /\ [](ctrlcTask = "exited" =>
            (proc = "exited" /\ exitCode = 0
                /\ \A k \in DOMAIN tasks : Terminated(tasks[k])))

C10_Witness ==
    /\ ctrlcTask = "exited"
    /\ proc = "exited"
    /\ \E k \in DOMAIN tasks : tasks[k].pc = "killed" /\ Len(tasks[k].calls) = 1
    /\ \E k \in DOMAIN tasks : tasks[k].pc = "killed" /\ tasks[k].calls = <<>>

\* The state of the specified listener state machine a task is in.
ListenerState(t) ==
    CASE t.pc = "spawned" -> "Starting"
      [] t.pc = "invoking" -> "Invoking"
      [] OTHER -> "Terminated"

\* C11: a listener only moves Starting -> WaitingForMessage,
\* WaitingForMessage -> Invoking, Invoking -> WaitingForMessage, and to
\* Terminated only in the step of a global shutdown: it never starts an
\* invocation without having waited for a message and never terminates
\* otherwise.
C11_ListenerStateMachine ==
    [][\A k \in DOMAIN tasks :
        LET a == ListenerState(tasks[k])
            b == ListenerState(tasks'[k])
        IN a # b =>
            \/ <<a, b>> \in { <<"Starting", "WaitingForMessage">>,
                              <<"WaitingForMessage", "Invoking">>,
                              <<"Invoking", "WaitingForMessage">> }
            \/ b = "Terminated" /\ proc = "running" /\ proc' = "exited"]_vars

\* The listener tasks of the b-th binding with a handler call in progress.
ActiveFor(b) ==
    { k \in DOMAIN tasks :
        TaskConfig(tasks[k]) = Configs[b] /\ tasks[k].pc = "invoking" }

\* C12: every binding has at most one handler invocation in progress: at most
\* one of its listener tasks is invoking, with a single call begun.
C12_OneActiveInvocationPerBinding ==
    \A b \in DOMAIN Configs :
        /\ Cardinality(ActiveFor(b)) <= 1
        /\ \A k \in ActiveFor(b) : Len(tasks[k].calls) = 1

\* Invocations of two different bindings are in progress at the same time.
C12_Witness ==
    \E b \in DOMAIN Configs : \E c \in DOMAIN Configs \ {b} :
        /\ Cardinality(ActiveFor(b)) = 1
        /\ Cardinality(ActiveFor(c)) = 1

\* C13: a listener only ever prepares and invokes the component of its own
\* binding, and no payload handed to its handler is a message delivered on a
\* topic other than its own.
C13_NoCrossBindingLeakage ==
    \A k \in DOMAIN tasks :
        /\ k <= Len(Configs)
        /\ tasks[k].instance \in {"none", Configs[k][1]}
        /\ \A t \in Topics \ {Configs[k][3]} :
            \A c \in DOMAIN tasks[k].calls :
                tasks[k].calls[c] \notin Range(delivered[t])

\* Two listeners of different components have each invoked their own
\* component while a message was delivered on the other one's topic.
C13_Witness ==
    \E i \in DOMAIN tasks : \E j \in DOMAIN tasks \ {i} :
        /\ tasks[i].instance = Configs[i][1]
        /\ tasks[j].instance = Configs[j][1]
        /\ Configs[i][1] # Configs[j][1]
        /\ Configs[i][3] # Configs[j][3]
        /\ delivered[Configs[i][3]] # <<>>
        /\ delivered[Configs[j][3]] # <<>>

\* C14: an invocation whose instance was prepared and bound calls the handler
\* exactly once and completes only with the handler's result in hand; a task
\* whose instance could not be prepared or bound has called it zero times.
C14_HandlerCalledOnce ==
    \A k \in DOMAIN tasks :
        /\ tasks[k].instance # "none" => Len(tasks[k].calls) = 1
        /\ tasks[k].instance = "none" => tasks[k].calls = <<>>
        /\ tasks[k].pc = "panicked" => tasks[k].calls = <<>>
        /\ tasks[k].ret = "Ok" =>
            (Len(tasks[k].calls) = 1 /\ tasks[k].result \in HandlerResults)
        /\ tasks[k].pc = "invoking" => tasks[k].result = "none"

C14_Witness ==
    \E i \in DOMAIN tasks : \E j \in DOMAIN tasks \ {i} :
        /\ tasks[i].pc = "done"
        /\ Len(tasks[i].calls) = 1
        /\ tasks[j].pc = "panicked"
        /\ tasks[j].result = "prepare_err"
        /\ tasks[j].calls = <<>>

\* C15: a module trap, a missing component and an application error of the
\* handler each make the invocation end with an error outcome.
C15_FailuresSurfaced ==
    \A k \in DOMAIN tasks :
        tasks[k].result \in {"trap", "app_error", "prepare_err", "bind_err"} =>
            tasks[k].ret = "Err"

ValidQos == {0, 1, 2}

\* C16: the default qos of a constructed trigger and the qos of each of its
\* component bindings are in {0, 1, 2}.
C16_QosInRange ==
    trigger.constructed =>
        /\ trigger.qos \in ValidQos
        /\ \A k \in DOMAIN trigger.component_configs :
            trigger.component_configs[k][2] \in ValidQos

\* C17: in every state the trigger holds the address, the qos and the
\* (component, qos, topic) triples that new read from the manifest.
C17_BindingsFixed ==
    trigger.constructed =>
        /\ trigger.address = manifest.trigger.address
        /\ trigger.qos = manifest.trigger.qos
        /\ Len(trigger.component_configs) = Len(manifest.components)
        /\ \A k \in DOMAIN manifest.components :
            trigger.component_configs[k] =
                <<manifest.components[k].component, manifest.components[k].qos,
                  manifest.components[k].topic>>

\* The trigger is unchanged after listeners ran, a module published and the
\* broker delivered messages.
C17_Witness ==
    /\ trigger.constructed
    /\ Len(trigger.component_configs) = MaxBindings
    /\ publishLog # <<>>
    /\ TotalDelivered > 0
    /\ runPc = "returned"
    /\ \A k \in DOMAIN tasks : tasks[k].pc \in {"done", "panicked"}

\* A step of the program itself: new, run, main, the Ctrl+C task, a listener
\* task reaching its handler call, or a handler call resolving.
ProgramStep ==
    \/ New \/ RunStart \/ ScopeSpawn \/ ScopeClose \/ RunReturn \/ MainReturn
    \/ CtrlCTask
    \/ \E k \in 1..(MaxBindings + 1), o \in PrepareOutcomes : PrepareInstance(k, o)
    \/ \E k \in 1..(MaxBindings + 1), r \in HandlerResults : HandlerReturns(k, r)

\* The program runs on while it has a step to take, and handler calls resolve.
FairSpec == Spec /\ WF_vars(ProgramStep)

\* C18: run has returned only when every binding's task was spawned and has
\* finished; it returns without any cancellation signal; and once the trigger
\* is constructed run eventually returns (or Ctrl+C ends the process first).
C18_RunReturnsAfterJoin ==
    /\ [](runPc = "returned" =>
            /\ Len(tasks) = Len(Configs)
            /\ \A k \in DOMAIN tasks : Terminated(tasks[k]))
    /\ [](runPc = "returned" /\ proc = "running" =>
            \A k \in DOMAIN tasks : tasks[k].pc \in {"done", "panicked"})
    /\ (trigger.constructed ~> (runPc = "returned" \/ ctrlcTask = "exited"))

\* run returned with no signal raised: once with zero bindings, and once
\* after all its listeners finished.
C18_Witness ==
    /\ runPc = "returned"
    /\ ~signal
    /\ Len(tasks) = MaxBindings
    /\ \A k \in DOMAIN tasks : tasks[k].pc = "done"

C18_WitnessNoBindings ==
    /\ runPc = "returned"
    /\ ~signal
    /\ trigger.constructed
    /\ trigger.component_configs = <<>>

TotalCalls ==
    LET RECURSIVE Sum(_)
        Sum(n) == IF n = 0 THEN 0 ELSE Len(tasks[n].calls) + Sum(n - 1)
    IN Sum(Len(tasks))

\* C20: each listener makes at most one handler invocation and the total
\* number of invocations never exceeds the number of bindings, however many
\* messages the broker delivers.
C20_AtMostOneInvocation ==
    /\ \A k \in DOMAIN tasks : Len(tasks[k].calls) <= 1
    /\ TotalCalls <= Len(Configs)

\* Every message the bound allows was delivered on one topic while its
\* listener was alive, and still each listener invoked just once.
C20_Witness ==
    /\ \E t \in Topics : Len(delivered[t]) = MaxMsgs
    /\ TotalCalls = MaxBindings
    /\ \A k \in DOMAIN tasks : tasks[k].pc = "done"

====
